---- MODULE Spec2Model ----
(***************************************************************************)
(* cc-tail (src/src/index.js): locating a session file, replaying it,      *)
(* then following it through change notifications that read the byte      *)
(* range [lastSize, newSize).  A second process, the writer, appends to    *)
(* (or truncates) the session file while the engine runs.                  *)
(***************************************************************************)
EXTENDS Integers, Sequences, FiniteSets, TLC

(***************************************************************************)
(* Bounds of the model                                                     *)
(***************************************************************************)
MaxWrites == 2

(***************************************************************************)
(* Bytes and lines.  A JSON object is abstracted to two bytes, an opening  *)
(* byte that identifies the record and the closing brace; a proper prefix  *)
(* or suffix of it is not valid JSON.  "x" is a byte of garbage, "0" the   *)
(* zero byte of a freshly allocated Buffer.                                *)
(***************************************************************************)
NL == "\n"
NUL == "0"
Close == "}"
Tags == {"A", "U"}
Garbage == <<"x">>

Thinking(v) == [type |-> "thinking", val |-> v]
ToolUse(n) == [type |-> "tool_use", val |-> n]
ToolRes(v) == [type |-> "tool_result", val |-> v]
Text(v) == [type |-> "text", val |-> v]
Struct == "STRUCT"
NoTur == [present |-> FALSE, stdout |-> "", stderr |-> ""]

ArrayContent(items) == [kind |-> "array", text |-> "", items |-> items]

EntryA ==
  [type |-> "assistant", tur |-> NoTur,
   content |-> ArrayContent(<<Thinking("th"), ToolUse("Bash"), Text("tx")>>)]
EntryU ==
  [type |-> "user", tur |-> NoTur,
   content |-> ArrayContent(<<Text("ut"), ToolRes("tr"), ToolRes(Struct), ToolRes("t2")>>)]

EntryOf(t) == IF t = "A" THEN EntryA ELSE EntryU

Encode(t) == <<t, Close>>
IsJson(line) == Len(line) = 2 /\ line[1] \in Tags /\ line[2] = Close
JsonParse(line) == EntryOf(line[1])

LineSet == {Encode(t) : t \in Tags} \cup {Garbage}

(***************************************************************************)
(* Renderers.  The terminal output is the sequence of blocks printed; a    *)
(* block records the offset of the line it came from (at), the index of    *)
(* the content item (0 for the user message itself), its kind, its body    *)
(* and, for a thinking block, the palette index of its color.  st is the   *)
(* state the renderers act on: the blocks printed so far, the module-level *)
(* thinkingCount, and err, set when a renderer has thrown.                 *)
(***************************************************************************)
PaletteSize == 4

Block(st, i, kind, body, color) ==
  [at |-> st.at, item |-> i, kind |-> kind, body |-> body, color |-> color]

PrintThinking(st, thinking, i) ==
  [st EXCEPT !.out = Append(@, Block(st, i, "thinking", <<thinking>>,
                                     st.tc % PaletteSize)),
             !.tc = @ + 1]

PrintTextResponse(st, text, i) ==
  [st EXCEPT !.out = Append(@, Block(st, i, "text", <<text>>, -1))]

PrintToolCall(st, name, i) ==
  [st EXCEPT !.out = Append(@, Block(st, i, "tool_use", <<name>>, -1))]

IsTextItem(item) == item.type = "text" /\ item.val # ""

RECURSIVE TextsOf(_)
TextsOf(items) ==
  IF items = <<>> THEN <<>>
  ELSE (IF IsTextItem(Head(items)) THEN <<Head(items).val>> ELSE <<>>)
       \o TextsOf(Tail(items))

\* text is the content string, or the text items joined by newlines; an
\* empty text prints nothing
PrintUserMessage(st, content) ==
  LET text == IF content.kind = "string" THEN <<content.text>>
              ELSE TextsOf(content.items)
      empty == text = <<>> \/ text = <<"">>
  IN IF empty THEN st
     ELSE [st EXCEPT !.out = Append(@, Block(st, 0, "user", text, -1))]

\* output = toolUseResult?.stdout || content; the arrow is printed, then
\* output.split('\n') throws when output is not a string
PrintToolResult(st, content, tur, i) ==
  LET stdout == IF tur.present THEN tur.stdout ELSE ""
      stderr == IF tur.present THEN tur.stderr ELSE ""
      output == IF stdout # "" THEN stdout ELSE content
  IN IF output = "" /\ stderr = "" THEN st
     ELSE IF output = Struct
       THEN [st EXCEPT !.out = Append(@, Block(st, i, "tool_result", <<>>, -1)),
                       !.err = TRUE]
       ELSE [st EXCEPT !.out = Append(@, Block(st, i, "tool_result",
                  (IF output # "" THEN <<output>> ELSE <<>>)
                  \o (IF stderr # "" THEN <<stderr>> ELSE <<>>), -1))]

(***************************************************************************)
(* processEntry                                                            *)
(***************************************************************************)
\* the tool_result scan of a record of type "user"
RECURSIVE UserToolResults(_, _, _, _)
UserToolResults(items, i, tur, st) ==
  IF i > Len(items) \/ st.err THEN st
  ELSE UserToolResults(items, i + 1, tur,
         IF items[i].type = "tool_result"
         THEN PrintToolResult(st, items[i].val, tur, i) ELSE st)

\* the body of the content loop: four conditions, tested in this order
ProcessItem(item, i, tur, opts, st) ==
  LET s1 == IF opts.showThinking /\ item.type = "thinking" /\ item.val # ""
            THEN PrintThinking(st, item.val, i) ELSE st
      s2 == IF opts.showTools /\ item.type = "tool_use"
            THEN PrintToolCall(s1, item.val, i) ELSE s1
      s3 == IF opts.showToolOutput /\ item.type = "tool_result"
            THEN PrintToolResult(s2, item.val, tur, i) ELSE s2
      s4 == IF ~s3.err /\ opts.showOutput /\ item.type = "text" /\ item.val # ""
            THEN PrintTextResponse(s3, item.val, i) ELSE s3
  IN s4

RECURSIVE ContentLoop(_, _, _, _, _)
ContentLoop(items, i, tur, opts, st) ==
  IF i > Len(items) \/ st.err THEN st
  ELSE ContentLoop(items, i + 1, tur, opts,
                   ProcessItem(items[i], i, tur, opts, st))

Truthy(content) ==
  content.kind = "array" \/ (content.kind = "string" /\ content.text # "")

ProcessEntry(entry, opts, st) ==
  IF entry.type = "user" /\ Truthy(entry.content)
  THEN LET s1 == IF opts.showUser THEN PrintUserMessage(st, entry.content)
                 ELSE st
       IN IF opts.showToolOutput /\ entry.content.kind = "array"
          THEN UserToolResults(entry.content.items, 1, entry.tur, s1)
          ELSE s1
  ELSE IF entry.content.kind # "array" THEN st
  ELSE ContentLoop(entry.content.items, 1, entry.tur, opts, st)

(***************************************************************************)
(* Lines of a chunk: split('\n').filter(Boolean), each piece with the      *)
(* offset in the file of its first byte.                                   *)
(***************************************************************************)
RECURSIVE SplitNL(_, _, _, _)
\* bytes from index i on, cur is the piece being collected, which started
\* at offset at
SplitNL(bytes, i, cur, at) ==
  IF i > Len(bytes) THEN <<[at |-> at, text |-> cur]>>
  ELSE IF bytes[i] = NL
    THEN <<[at |-> at, text |-> cur]>> \o SplitNL(bytes, i + 1, <<>>, at + Len(cur) + 1)
    ELSE SplitNL(bytes, i + 1, Append(cur, bytes[i]), at)

NonEmpty(piece) == piece.text # <<>>

LinesOf(bytes, base) == SelectSeq(SplitNL(bytes, 1, <<>>, base), NonEmpty)

\* the loop with the try around the whole loop: the first failure ends it
RECURSIVE ProcessLines_abort(_, _, _)
ProcessLines_abort(lines, opts, st) ==
  IF lines = <<>> THEN st
  ELSE LET l == Head(lines) IN
       IF ~IsJson(l.text) THEN st
       ELSE LET s1 == ProcessEntry(JsonParse(l.text), opts, [st EXCEPT !.at = l.at])
            IN IF s1.err THEN [s1 EXCEPT !.err = FALSE]
               ELSE ProcessLines_abort(Tail(lines), opts, s1)

\* the loop walking the lines from the last to the first
RECURSIVE ProcessLines_rev(_, _, _)
ProcessLines_rev(lines, opts, st) ==
  IF lines = <<>> THEN st
  ELSE LET l == lines[Len(lines)]
           s1 == IF IsJson(l.text)
                 THEN ProcessEntry(JsonParse(l.text), opts, [st EXCEPT !.at = l.at])
                 ELSE st
       IN ProcessLines_rev(SubSeq(lines, 1, Len(lines) - 1), opts,
                           [s1 EXCEPT !.err = FALSE])

\* for (const line of lines) { try { processEntry(JSON.parse(line), ...) } catch {} }
RECURSIVE ProcessLines(_, _, _)
ProcessLines(lines, opts, st) ==
  IF lines = <<>> THEN st
  ELSE LET l == Head(lines)
           s1 == IF IsJson(l.text)
                 THEN ProcessEntry(JsonParse(l.text), opts, [st EXCEPT !.at = l.at])
                 ELSE st
       IN ProcessLines(Tail(lines), opts, [s1 EXCEPT !.err = FALSE])

(***************************************************************************)
(* The ink front end (part_001) on the same reads.  processEntries builds  *)
(* the elements of one batch of parsed records; an element records its     *)
(* kind and, for a thinking block, the palette index of its color.  The    *)
(* index handed to ThinkingBlock is the count local to the call.           *)
(***************************************************************************)
THINKING_COLORS == 4

ThinkingBlock(index) == [kind |-> "thinking", color |-> index % THINKING_COLORS]
ToolCall == [kind |-> "tool", color |-> -1]

RECURSIVE processContent(_, _, _)
processContent(items, showTools, res) ==
  IF items = <<>> THEN res
  ELSE LET item == Head(items)
           r1 == IF item.type = "thinking" /\ item.val # ""
                 THEN [entries |-> Append(res.entries, ThinkingBlock(res.thinkingCount)),
                       thinkingCount |-> res.thinkingCount + 1]
                 ELSE res
           r2 == IF showTools /\ item.type = "tool_use"
                 THEN [r1 EXCEPT !.entries = Append(@, ToolCall)]
                 ELSE r1
       IN processContent(Tail(items), showTools, r2)

RECURSIVE processBatch(_, _, _)
processBatch(es, showTools, res) ==
  IF es = <<>> THEN res
  ELSE LET content == Head(es).content
       IN processBatch(Tail(es), showTools,
                       IF content.kind # "array" THEN res
                       ELSE processContent(content.items, showTools, res))

processEntries(es, showTools) ==
  processBatch(es, showTools, [entries |-> <<>>, thinkingCount |-> 0])

\* lines.map(line => { try { return JSON.parse(line) } catch { return null } }).filter(Boolean)
RECURSIVE ParsedEntries(_)
ParsedEntries(lines) ==
  IF lines = <<>> THEN <<>>
  ELSE IF IsJson(Head(lines).text)
       THEN <<JsonParse(Head(lines).text)>> \o ParsedEntries(Tail(lines))
       ELSE ParsedEntries(Tail(lines))

(***************************************************************************)
(* Session locator.  A path is a sequence of strings; a file name is a     *)
(* pair <<stem, extension>>.  The project path is always the working       *)
(* directory.                                                              *)
(***************************************************************************)
Null == <<>>
NA == <<"N/A">>
ProjectDir == <<"projects", "cwd">>
Jsonl(stem) == <<stem, "jsonl">>
PathJoin(dir, name) == dir \o name

EndsWithJsonl(p) == p # <<>> /\ p[Len(p)] = "jsonl"

DirPaths(fs) ==
  IF fs.dirExists
  THEN {ProjectDir} \cup {PathJoin(ProjectDir, fs.listing[i].name) : i \in DOMAIN fs.listing}
  ELSE {}

ExistsSync(fs, p) == p \in DirPaths(fs) \cup fs.others

\* the listing without its endsWith('.jsonl') filter
IsLog_any(f) == TRUE

IsLog(f) == EndsWithJsonl(f.name)

\* sort((a, b) => b.mtime - a.mtime) is stable: files[0] is the first file,
\* in directory order, of the greatest mtime
First(files) ==
  LET top == CHOOSE i \in DOMAIN files :
               /\ \A j \in DOMAIN files : files[j].mtime <= files[i].mtime
               /\ \A j \in 1..(i - 1) : files[j].mtime < files[i].mtime
  IN files[top]

findSessionFile(sessionId, fs) ==
  IF sessionId # <<>> THEN PathJoin(ProjectDir, Jsonl(sessionId[1]))
  ELSE IF ~ExistsSync(fs, ProjectDir) THEN Null
  ELSE LET files == SelectSeq(fs.listing, IsLog)
       IN IF files # <<>> THEN PathJoin(ProjectDir, First(files).name) ELSE Null

\* lines 544-565: a first argument ending in .jsonl is a direct file
ResolveSessionFile(c, fs) ==
  IF EndsWithJsonl(c.arg1) THEN c.arg1 ELSE findSessionFile(c.arg1, fs)

(***************************************************************************)
(* Command lines and directories the runs start from                      *)
(***************************************************************************)
Flags(th, to, tout, o, u, a) ==
  [thinking |-> th, tools |-> to, toolOutput |-> tout, output |-> o,
   user |-> u, all |-> a]

DefaultFlags == Flags(TRUE, FALSE, FALSE, FALSE, TRUE, FALSE)

FlagSets ==
  { DefaultFlags,
    Flags(FALSE, FALSE, FALSE, FALSE, FALSE, TRUE),
    Flags(FALSE, TRUE, FALSE, TRUE, FALSE, FALSE) }

Cli(flags, follow, list, arg1) ==
  [flags |-> flags, follow |-> follow, list |-> list, arg1 |-> arg1]

File(stem, ext, mtime) == [name |-> <<stem, ext>>, mtime |-> mtime]

Fs(dirExists, listing, others) ==
  [dirExists |-> dirExists, listing |-> listing, others |-> others]

DirectPath == <<"abs", "d", "jsonl">>
FsFull == Fs(TRUE, <<File("s1", "jsonl", 2), File("s2", "jsonl", 5),
                     File("s3", "jsonl", 5), File("notes", "txt", 9)>>,
             {DirectPath})
FsNoLogs == Fs(TRUE, <<File("notes", "txt", 9)>>, {})
FsNoDir == Fs(FALSE, <<>>, {})

Runs ==
  {[cli |-> Cli(f, fo, FALSE, <<>>), fs |-> FsFull] :
      f \in FlagSets, fo \in BOOLEAN}
  \cup
  {[cli |-> Cli(DefaultFlags, FALSE, l, a), fs |-> d] :
      l \in BOOLEAN, a \in {<<>>, <<"s1">>, <<"s9">>, DirectPath},
      d \in {FsFull, FsNoLogs, FsNoDir}}

\* lines 576-580
Resolve(flag, all) == flag \/ all

Opts(c) ==
  [showThinking |-> Resolve(c.flags.thinking, c.flags.all),
   showTools |-> Resolve(c.flags.tools, c.flags.all),
   showToolOutput |-> Resolve(c.flags.toolOutput, c.flags.all),
   showOutput |-> Resolve(c.flags.output, c.flags.all),
   showUser |-> Resolve(c.flags.user, c.flags.all)]

(***************************************************************************)
(* The diff renderer, lines 269-360.  A text is the sequence of its lines. *)
(* diffLines is the library's line diff: it returns change objects, each   *)
(* a run of lines that were added, removed or kept; which of the shortest  *)
(* edit scripts it returns is the library's choice, here any of them with  *)
(* the removed lines of a run before the added ones.                       *)
(***************************************************************************)
MaxText == 4
MaxContext == 3
Alphabet == {"a", "b"}
Texts == UNION {[1..n -> Alphabet] : n \in 0..MaxText}

Max(a, b) == IF a >= b THEN a ELSE b
Min(a, b) == IF a <= b THEN a ELSE b

RECURSIVE Lcs(_, _)
Lcs(o, n) ==
  IF o = <<>> \/ n = <<>> THEN 0
  ELSE IF Head(o) = Head(n) THEN 1 + Lcs(Tail(o), Tail(n))
  ELSE Max(Lcs(Tail(o), n), Lcs(o, Tail(n)))

Op(kind, line) == [kind |-> kind, line |-> line]

RECURSIVE EditScripts(_, _)
EditScripts(o, n) ==
  IF o = <<>> /\ n = <<>> THEN {<<>>}
  ELSE LET best == Lcs(o, n)
           keep == IF o # <<>> /\ n # <<>> /\ Head(o) = Head(n)
                   THEN {<<Op("kept", Head(o))>> \o r : r \in EditScripts(Tail(o), Tail(n))}
                   ELSE {}
           del == IF o # <<>> /\ Lcs(Tail(o), n) = best
                  THEN {<<Op("removed", Head(o))>> \o r : r \in EditScripts(Tail(o), n)}
                  ELSE {}
           ins == IF n # <<>> /\ Lcs(o, Tail(n)) = best
                  THEN {<<Op("added", Head(n))>> \o r : r \in EditScripts(o, Tail(n))}
                  ELSE {}
       IN keep \cup del \cup ins

RemovedFirst(script) ==
  \A i \in 1..(Len(script) - 1) :
     ~(script[i].kind = "added" /\ script[i + 1].kind = "removed")

Change(op) ==
  [added |-> op.kind = "added", removed |-> op.kind = "removed", value |-> <<op.line>>]

\* consecutive lines of one kind make one change object
RECURSIVE Grouped(_, _, _)
Grouped(script, i, acc) ==
  IF i > Len(script) THEN acc
  ELSE IF i > 1 /\ script[i].kind = script[i - 1].kind
       THEN Grouped(script, i + 1,
                    [acc EXCEPT ![Len(acc)].value = Append(@, script[i].line)])
       ELSE Grouped(script, i + 1, Append(acc, Change(script[i])))

diffLines(o, n) ==
  {Grouped(script, 1, <<>>) : script \in {e \in EditScripts(o, n) : RemovedFirst(e)}}

\* the numbering with a kept line advancing the new counter only
RECURSIVE PushLines_ctx(_, _, _)
PushLines_ctx(change, changeLines, st) ==
  IF changeLines = <<>> THEN st
  ELSE LET line == Head(changeLines)
           s1 == IF change.added
                 THEN [st EXCEPT !.allLines = Append(@, [type |-> "add", line |-> line,
                                                         num |-> st.newLineNum]),
                                 !.newLineNum = @ + 1]
                 ELSE IF change.removed
                 THEN [st EXCEPT !.allLines = Append(@, [type |-> "remove", line |-> line,
                                                         num |-> st.oldLineNum]),
                                 !.oldLineNum = @ + 1]
                 ELSE [st EXCEPT !.allLines = Append(@, [type |-> "context", line |-> line,
                                                         num |-> st.newLineNum]),
                                 !.newLineNum = @ + 1]
       IN PushLines_ctx(change, Tail(changeLines), s1)

\* lines 273-291
RECURSIVE PushLines(_, _, _)
PushLines(change, changeLines, st) ==
  IF changeLines = <<>> THEN st
  ELSE LET line == Head(changeLines)
           s1 == IF change.added
                 THEN [st EXCEPT !.allLines = Append(@, [type |-> "add", line |-> line,
                                                         num |-> st.newLineNum]),
                                 !.newLineNum = @ + 1]
                 ELSE IF change.removed
                 THEN [st EXCEPT !.allLines = Append(@, [type |-> "remove", line |-> line,
                                                         num |-> st.oldLineNum]),
                                 !.oldLineNum = @ + 1]
                 ELSE [st EXCEPT !.allLines = Append(@, [type |-> "context", line |-> line,
                                                         num |-> st.newLineNum]),
                                 !.oldLineNum = @ + 1,
                                 !.newLineNum = @ + 1]
       IN PushLines(change, Tail(changeLines), s1)

RECURSIVE BuildLines(_, _)
BuildLines(changes, st) ==
  IF changes = <<>> THEN st.allLines
  ELSE BuildLines(Tail(changes), PushLines(Head(changes), Head(changes).value, st))

AllLines(changes) ==
  BuildLines(changes, [allLines |-> <<>>, oldLineNum |-> 1, newLineNum |-> 1])

\* the loop of lines 305-357; i and j count from 0 as in the code
Ellipsis == [type |-> "ellipsis", line |-> "...", num |-> 0]

IsContext(l) == l.type = "context"
IsChange(all, i) == all[i + 1].type \in {"add", "remove"}

\* the trailing marker pushed after every region
More_le(i, n) == i <= n

More(i, n) == i < n

\* the context lines among all[from .. to - 1]
ContextIn(all, from, to) == SelectSeq(SubSeq(all, from + 1, to), IsContext)

\* where the inner while of line 327 stops
RECURSIVE RegionEnd(_, _)
RegionEnd(all, i) ==
  IF /\ i < Len(all)
     /\ \/ IsChange(all, i)
        \/ (IsContext(all[i + 1]) /\ i + 1 < Len(all) /\ IsChange(all, i + 1))
  THEN RegionEnd(all, i + 1)
  ELSE i

RECURSIVE RenderLoop(_, _, _, _)
RenderLoop(all, c, i, o) ==
  IF ~(i < Len(all)) THEN o
  ELSE IF IsChange(all, i)
  THEN LET contextStart == Max(0, i - c)
           o1 == IF contextStart > 0 /\ o = <<>> THEN <<Ellipsis>> ELSE o
           o2 == o1 \o ContextIn(all, contextStart, i)
           k == RegionEnd(all, i)
           o3 == o2 \o SubSeq(all, i + 1, k)
           contextEnd == Min(Len(all), k + c)
           o4 == o3 \o ContextIn(all, k, contextEnd)
           o5 == IF More(contextEnd, Len(all)) THEN Append(o4, Ellipsis) ELSE o4
       IN RenderLoop(all, c, contextEnd, o5)
  ELSE RenderLoop(all, c, i + 1, o)

Rendered(all, c) == RenderLoop(all, c, 0, <<>>)

(***************************************************************************)
(* Word wrapping, lines 231-256.  A string is the sequence of its maximal  *)
(* runs of whitespace and of other characters, each with its length: what  *)
(* line.split(/(\s+)/) cuts it into.  A text is a sequence of lines; an    *)
(* output line records the indent string joined in front of it.            *)
(***************************************************************************)
MaxTokens == 3
WordLens == {1, 12, 25}
SpaceLens == {1, 22}
ColumnsSet == {0, 20, 24}
Indents == {0, 2, 4}
DefaultColumns == 80
MinWidth == 20

Word(n) == [ws |-> FALSE, len |-> n]
Space(n) == [ws |-> TRUE, len |-> n]
Tokens == {Word(n) : n \in WordLens} \cup {Space(n) : n \in SpaceLens}

RECURSIVE Length(_)
Length(str) == IF str = <<>> THEN 0 ELSE Head(str).len + Length(Tail(str))

WLines ==
  {l \in UNION {[1..k -> Tokens] : k \in 0..MaxTokens} :
      \A i \in 1..(Len(l) - 1) : l[i].ws # l[i + 1].ws}

WTexts == {<<l>> : l \in WLines} \cup {<<l, <<Word(1)>>>> : l \in WLines}

\* split(/(\s+)/) gives an empty string before leading and after trailing
\* whitespace
SplitWs(line) ==
  (IF line # <<>> /\ Head(line).ws THEN <<Word(0)>> ELSE <<>>)
  \o line
  \o (IF line # <<>> /\ line[Len(line)].ws THEN <<Word(0)>> ELSE <<>>)

Concat(str, word) == IF word.len = 0 THEN str ELSE Append(str, word)
TrimStart(word) == IF word.ws \/ word.len = 0 THEN <<>> ELSE <<word>>

\* the loop of lines 243-250 and the push of line 251
RECURSIVE WrapWords(_, _, _, _)
WrapWords(words, maxWidth, acc, current) ==
  IF words = <<>>
  THEN IF Length(current) > 0 THEN Append(acc, current) ELSE acc
  ELSE LET word == Head(words)
       IN IF Length(current) + word.len <= maxWidth
          THEN WrapWords(Tail(words), maxWidth, acc, Concat(current, word))
          ELSE WrapWords(Tail(words), maxWidth,
                         IF Length(current) > 0 THEN Append(acc, current) ELSE acc,
                         TrimStart(word))

OutLine(ind, body) == [indent |-> ind, body |-> body]

\* wrapped.join('\n' + indentStr): every piece but the first is indented
Joined(pieces, ind) ==
  [i \in 1..Len(pieces) |-> OutLine(IF i = 1 THEN 0 ELSE ind, pieces[i])]

WrapLine(line, maxWidth, ind) ==
  IF Length(line) <= maxWidth THEN <<OutLine(0, line)>>
  ELSE LET pieces == WrapWords(SplitWs(line), maxWidth, <<>>, <<>>)
       IN IF pieces = <<>> THEN <<OutLine(0, <<>>)>> ELSE Joined(pieces, ind)

RECURSIVE WrapLines(_, _, _)
WrapLines(lines, maxWidth, ind) ==
  IF lines = <<>> THEN <<>>
  ELSE WrapLine(Head(lines), maxWidth, ind) \o WrapLines(Tail(lines), maxWidth, ind)

Width(cols) == IF cols # 0 THEN cols ELSE DefaultColumns

wrapText(text, cols, ind) ==
  LET maxWidth == Width(cols) - ind
  IN IF maxWidth < MinWidth THEN [i \in 1..Len(text) |-> OutLine(0, text[i])]
     ELSE WrapLines(text, maxWidth, ind)

(***************************************************************************)
(* State                                                                   *)
(***************************************************************************)
VARIABLES
  cli,            \* the parsed command line
  fs,             \* the project directory at start-up
  pc,             \* where the engine is
  sessionFile,    \* the resolved path
  exitCode,       \* -1 while running
  diag,           \* the path named by "Looked for:", Null when none printed
  file,           \* the bytes of the session file
  pending,        \* bytes of the line the writer has not yet appended
  nWrites,        \* lines begun and truncations made by the writer
  shrunk,         \* the file has been truncated or removed
  exists,         \* the session file is there
  lastSize,       \* the tail cursor
  newSize,        \* the size the change handler last observed
  watching,       \* the watcher is registered
  out,            \* blocks printed
  entries,        \* the elements the ink front end (part_001) has rendered
  thinkingCount,  \* module-level counter of thinking blocks
  readEnd,        \* history: the offset the last read ended at
  tiled,          \* history: each read began where the one before ended
  aligned,        \* history: each read ended at a line boundary
  lastNotif,      \* history: how the last change notification ended
  probe,          \* history: a whole valid line appended to a caught-up follower
  dpc,            \* renderDiff: "idle", "input" or "rendered"
  oldStr,         \* renderDiff: the old text, a sequence of lines
  newStr,         \* renderDiff: the new text
  contextLines,   \* renderDiff: its third argument
  allLines,       \* renderDiff: the lines of the diff with their metadata
  output,         \* renderDiff: the lines it returns
  wpc,            \* wrapText: "idle", "input" or "wrapped"
  wText,          \* wrapText: the text, a sequence of lines of tokens
  columns,        \* wrapText: process.stdout.columns, 0 when undefined
  indent,         \* wrapText: its second argument
  wrapped,        \* wrapText: the lines it returns
  rpc,            \* processEntry: "idle", "input" or "done"
  rec,            \* processEntry: the record of the line
  recOpts,        \* processEntry: the five toggles
  recOut,         \* processEntry: the blocks printed for the line
  recErr          \* processEntry: it threw into the catch of the line loop

vars == <<cli, fs, pc, sessionFile, exitCode, diag, file, pending, nWrites,
          shrunk, exists, lastSize, newSize, watching, out, entries, thinkingCount, readEnd,
          tiled, aligned, lastNotif, probe, dpc, oldStr, newStr, contextLines,
          allLines, output, wpc, wText, columns, indent, wrapped,
          rpc, rec, recOpts, recOut, recErr>>

diffVars == <<dpc, oldStr, newStr, contextLines, allLines, output>>
wrapVars == <<wpc, wText, columns, indent, wrapped>>
entryVars == <<rpc, rec, recOpts, recOut, recErr>>
pureVars == <<diffVars, wrapVars, entryVars>>

writerVars == <<file, pending, nWrites, shrunk, exists>>
readVars == <<readEnd, tiled, aligned>>
startVars == <<cli, fs, sessionFile, diag>>
engineVars == <<pc, exitCode, lastSize, newSize, watching, out, entries, thinkingCount,
                readVars, lastNotif>>

\* the session file as the run finds it
InitialFiles == {<<>>, Append(Encode("A"), NL)}

NoProbe == [on |-> FALSE, base |-> 0, line |-> <<>>, outBase |-> <<>>, passes |-> 0]

\* no diff is being rendered
DiffIdle ==
  /\ dpc = "idle"
  /\ oldStr = <<>>
  /\ newStr = <<>>
  /\ contextLines = 3
  /\ allLines = <<>>
  /\ output = <<>>

\* no text is being wrapped
WrapIdle ==
  /\ wpc = "idle"
  /\ wText = <<>>
  /\ columns = 0
  /\ indent = 0
  /\ wrapped = <<>>

\* no single record is being processed
EntryIdle ==
  /\ rpc = "idle"
  /\ rec = EntryA
  /\ recOpts = Opts(Cli(DefaultFlags, FALSE, FALSE, <<>>))
  /\ recOut = <<>>
  /\ recErr = FALSE

Init ==
  /\ \E r \in Runs : cli = r.cli /\ fs = r.fs
  /\ pc = "start"
  /\ sessionFile = Null
  /\ exitCode = -1
  /\ diag = Null
  /\ file \in InitialFiles
  /\ pending = <<>>
  /\ nWrites = 0
  /\ shrunk = FALSE
  /\ exists = TRUE
  /\ lastSize = 0
  /\ newSize = 0
  /\ watching = FALSE
  /\ out = <<>>
  /\ entries = <<>>
  /\ thinkingCount = 0
  /\ readEnd = 0
  /\ tiled = TRUE
  /\ aligned = TRUE
  /\ lastNotif = "none"
  /\ probe = NoProbe
  /\ DiffIdle
  /\ WrapIdle
  /\ EntryIdle

(***************************************************************************)
(* The writer: another process appending lines to the session file, a      *)
(* line at once or in two writes, and possibly truncating or removing the  *)
(* file; an append to a removed file creates it again.                     *)
(***************************************************************************)
Running == pc # "exited"
CaughtUp == pc = "follow" /\ lastSize = Len(file)

AppendLine(l, k) ==
  LET full == Append(l, NL) IN
  /\ Running
  /\ pending = <<>>
  /\ nWrites < MaxWrites
  /\ k \in 1..Len(full)
  /\ file' = file \o SubSeq(full, 1, k)
  /\ pending' = SubSeq(full, k + 1, Len(full))
  /\ nWrites' = nWrites + 1
  /\ probe' = IF CaughtUp /\ k = Len(full) /\ IsJson(l)
              THEN [on |-> TRUE, base |-> Len(file), line |-> l,
                    outBase |-> out, passes |-> 0]
              ELSE NoProbe
  /\ exists' = TRUE
  /\ UNCHANGED <<pureVars, shrunk, startVars, engineVars>>

AppendRest ==
  /\ Running
  /\ pending # <<>>
  /\ file' = file \o pending
  /\ pending' = <<>>
  /\ probe' = NoProbe
  /\ UNCHANGED <<pureVars, nWrites, shrunk, exists, startVars, engineVars>>

Truncate(n) ==
  /\ Running
  /\ exists
  /\ nWrites < MaxWrites
  /\ n \in 0..(Len(file) - 1)
  /\ file' = SubSeq(file, 1, n)
  /\ pending' = <<>>
  /\ nWrites' = nWrites + 1
  /\ shrunk' = TRUE
  /\ probe' = NoProbe
  /\ UNCHANGED <<pureVars, exists, startVars, engineVars>>

\* unlink of the resolved session file
Remove ==
  /\ pc \notin {"start", "exited"}
  /\ exists
  /\ nWrites < MaxWrites
  /\ file' = <<>>
  /\ pending' = <<>>
  /\ nWrites' = nWrites + 1
  /\ shrunk' = TRUE
  /\ exists' = FALSE
  /\ probe' = NoProbe
  /\ UNCHANGED <<pureVars, startVars, engineVars>>

(***************************************************************************)
(* Start-up, lines 544-571                                                 *)
(***************************************************************************)
ListSessions ==
  /\ pc = "start"
  /\ cli.list
  /\ pc' = "exited"
  /\ exitCode' = 0
  /\ UNCHANGED <<pureVars, startVars, writerVars, lastSize, newSize, watching, out, entries,
                 thinkingCount, readVars, lastNotif, probe>>

\* the test without its fs.existsSync(sessionFile) half
Found_nullOnly(c, f) == ResolveSessionFile(c, f) # Null

Found(c, f) ==
  LET p == ResolveSessionFile(c, f) IN p # Null /\ ExistsSync(f, p)

Looked(p) == IF p # Null THEN p ELSE NA

ResolveFail ==
  /\ pc = "start"
  /\ ~cli.list
  /\ ~Found(cli, fs)
  /\ sessionFile' = ResolveSessionFile(cli, fs)
  /\ diag' = Looked(sessionFile')
  /\ pc' = "exited"
  /\ exitCode' = 1
  /\ UNCHANGED <<pureVars, cli, fs, writerVars, lastSize, newSize, watching, out, entries,
                 thinkingCount, readVars, lastNotif, probe>>

ResolveOk ==
  /\ pc = "start"
  /\ ~cli.list
  /\ Found(cli, fs)
  /\ sessionFile' = ResolveSessionFile(cli, fs)
  /\ pc' = "replay"
  /\ UNCHANGED <<pureVars, cli, fs, diag, exitCode, writerVars, lastSize, newSize,
                 watching, out, entries, thinkingCount, readVars, lastNotif, probe>>

(***************************************************************************)
(* Replay, lines 597-607                                                   *)
(***************************************************************************)
\* offset n of the bytes is the start of the file or follows a newline
AtLineEnd(bytes, n) == n = 0 \/ (n <= Len(bytes) /\ bytes[n] = NL)

Engine(at) == [out |-> out, tc |-> thinkingCount, err |-> FALSE, at |-> at]

\* fs.readFileSync at 598 and fs.statSync at 610 throw ENOENT outside any
\* try: the process dies with status 1
StartThrows ==
  /\ pc \in {"replay", "init"}
  /\ ~exists
  /\ pc' = "exited"
  /\ exitCode' = 1
  /\ UNCHANGED <<pureVars, startVars, writerVars, lastSize, newSize, watching, out, entries,
                 thinkingCount, readVars, lastNotif, probe>>

Replay ==
  /\ pc = "replay"
  /\ exists
  /\ LET st == ProcessLines(LinesOf(file, 0), Opts(cli), Engine(0)) IN
       /\ out' = st.out
       /\ thinkingCount' = st.tc
  /\ entries' = processEntries(ParsedEntries(LinesOf(file, 0)), cli.flags.tools).entries
  /\ readEnd' = Len(file)
  /\ aligned' = AtLineEnd(file, Len(file))
  /\ UNCHANGED tiled
  /\ IF cli.follow
     THEN pc' = "init" /\ UNCHANGED exitCode
     ELSE pc' = "exited" /\ exitCode' = 0
  /\ UNCHANGED <<pureVars, startVars, writerVars, lastSize, newSize, watching,
                 lastNotif, probe>>

(***************************************************************************)
(* Follow, lines 609-634                                                   *)
(***************************************************************************)
\* let lastSize = fs.statSync(sessionFile).size; chokidar.watch(...)
InitCursor ==
  /\ pc = "init"
  /\ exists
  /\ lastSize' = Len(file)
  /\ watching' = TRUE
  /\ pc' = "follow"
  /\ UNCHANGED <<pureVars, startVars, writerVars, exitCode, newSize, out, entries, thinkingCount,
                 readVars, lastNotif, probe>>

\* the size test written as "changed" and as "not smaller"
Grew_ne(size, last) == size # last
Grew_ge(size, last) == size >= last

Grew(size, last) == size > last

\* the change handler up to its test of the size
OnChangeStat ==
  /\ pc = "follow"
  /\ exists
  /\ newSize' = Len(file)
  /\ IF Grew(newSize', lastSize)
     THEN pc' = "reading" /\ UNCHANGED lastNotif
     ELSE /\ pc' = "follow"
          /\ lastNotif' = IF newSize' < lastSize THEN "short" ELSE "noop"
  /\ UNCHANGED <<pureVars, startVars, writerVars, exitCode, lastSize, watching, out, entries,
                 thinkingCount, readVars, probe>>

\* readSync given a position one byte too far
ReadSync_off(bytes, position, n) ==
  [i \in 1..n |-> IF position + 1 + i <= Len(bytes) THEN bytes[position + 1 + i] ELSE NUL]

\* Buffer.alloc(n) is zero-filled; readSync copies the bytes the file has
ReadSync(bytes, position, n) ==
  [i \in 1..n |-> IF position + i <= Len(bytes) THEN bytes[position + i] ELSE NUL]

\* a cursor that advances over whole lines only
NextCursor_lines(size, last, buffer) ==
  LET ends == {i \in DOMAIN buffer : buffer[i] = NL}
  IN IF ends = {} THEN last
     ELSE last + (CHOOSE i \in ends : \A j \in ends : j <= i)

\* lastSize = newSize
NextCursor(size, last, buffer) == size

\* the rest of the change handler: read, process, advance the cursor
OnChangeRead ==
  /\ pc = "reading"
  /\ exists
  /\ LET buffer == ReadSync(file, lastSize, newSize - lastSize)
         st == ProcessLines(LinesOf(buffer, lastSize), Opts(cli), Engine(lastSize))
         newEntries == ParsedEntries(LinesOf(buffer, lastSize))
     IN /\ out' = st.out
        /\ thinkingCount' = st.tc
        /\ lastSize' = NextCursor(newSize, lastSize, buffer)
        /\ entries' = IF newEntries # <<>>
                       THEN entries \o processEntries(newEntries, cli.flags.tools).entries
                       ELSE entries
  /\ readEnd' = newSize
  /\ tiled' = (tiled /\ lastSize = readEnd)
  /\ aligned' = (aligned /\ AtLineEnd(file, newSize))
  /\ lastNotif' = "read"
  /\ probe' = IF probe.on THEN [probe EXCEPT !.passes = @ + 1] ELSE probe
  /\ pc' = "follow"
  /\ UNCHANGED <<pureVars, startVars, writerVars, exitCode, newSize, watching>>

\* fs.statSync at 614 and fs.openSync at 616 throw ENOENT inside the
\* 'change' listener, which has no try: the exception is uncaught and the
\* process dies with status 1
OnChangeThrows ==
  /\ pc \in {"follow", "reading"}
  /\ ~exists
  /\ lastNotif' = "threw"
  /\ watching' = FALSE
  /\ pc' = "exited"
  /\ exitCode' = 1
  /\ UNCHANGED <<pureVars, startVars, writerVars, lastSize, newSize, out, entries, thinkingCount,
                 readVars, probe>>

Sigint ==
  /\ pc = "follow"
  /\ watching' = FALSE
  /\ pc' = "exited"
  /\ exitCode' = 0
  /\ UNCHANGED <<pureVars, startVars, writerVars, lastSize, newSize, out, entries, thinkingCount,
                 readVars, lastNotif, probe>>

Next ==
  \/ \E l \in LineSet, k \in 1..3 : AppendLine(l, k)
  \/ AppendRest
  \/ \E n \in 0..(3 * (MaxWrites + 1)) : Truncate(n)
  \/ Remove
  \/ StartThrows
  \/ OnChangeThrows
  \/ ListSessions
  \/ ResolveFail
  \/ ResolveOk
  \/ Replay
  \/ InitCursor
  \/ OnChangeStat
  \/ OnChangeRead
  \/ Sigint

Spec == Init /\ [][Next]_vars

(***************************************************************************)
(* renderDiff on every pair of texts and every context width               *)
(***************************************************************************)
mainVars == <<startVars, writerVars, engineVars, entries, probe>>

\* the follower is not running
MainIdle ==
  /\ cli = Cli(DefaultFlags, FALSE, FALSE, <<>>) /\ fs = FsNoDir
  /\ pc = "exited" /\ sessionFile = Null /\ exitCode = 0 /\ diag = Null
  /\ file = <<>> /\ pending = <<>> /\ nWrites = 0 /\ shrunk = FALSE /\ exists = TRUE
  /\ lastSize = 0 /\ newSize = 0 /\ watching = FALSE
  /\ out = <<>> /\ entries = <<>> /\ thinkingCount = 0
  /\ readEnd = 0 /\ tiled = TRUE /\ aligned = TRUE
  /\ lastNotif = "none" /\ probe = NoProbe

InitDiff ==
  /\ MainIdle
  /\ WrapIdle
  /\ EntryIdle
  /\ dpc = "input"
  /\ oldStr \in Texts
  /\ newStr \in Texts
  /\ contextLines \in 0..MaxContext
  /\ allLines = <<>>
  /\ output = <<>>

renderDiff ==
  /\ dpc = "input"
  /\ \E changes \in diffLines(oldStr, newStr) :
       /\ allLines' = AllLines(changes)
       /\ output' = Rendered(allLines', contextLines)
  /\ dpc' = "rendered"
  /\ UNCHANGED <<mainVars, wrapVars, entryVars, oldStr, newStr, contextLines>>

NextDiff == renderDiff

(***************************************************************************)
(* wrapText on every text, terminal width and indent                       *)
(***************************************************************************)
InitWrap ==
  /\ MainIdle
  /\ DiffIdle
  /\ EntryIdle
  /\ wpc = "input"
  /\ wText \in WTexts
  /\ columns \in ColumnsSet
  /\ indent \in Indents
  /\ wrapped = <<>>

WrapText ==
  /\ wpc = "input"
  /\ wrapped' = wrapText(wText, columns, indent)
  /\ wpc' = "wrapped"
  /\ UNCHANGED <<mainVars, diffVars, entryVars, wText, columns, indent>>

NextWrap == WrapText

SpecWrap == InitWrap /\ [][NextWrap]_vars

(***************************************************************************)
(* processEntry on one line: every record of up to MaxItems content items, *)
(* every sidecar shape and every setting of the five toggles               *)
(***************************************************************************)
MaxItems == 3

Items ==
  {Thinking("th"), ToolUse("Bash"), ToolRes("tr"), ToolRes(Struct),
   Text("tx"), Text("")}

Sidecars ==
  {NoTur,
   [present |-> TRUE, stdout |-> "so", stderr |-> ""],
   [present |-> TRUE, stdout |-> "", stderr |-> "se"]}

StringContent(text) == [kind |-> "string", text |-> text, items |-> <<>>]

Contents ==
  {ArrayContent(items) : items \in UNION {[1..n -> Items] : n \in 0..MaxItems}}
  \cup {StringContent("us"), StringContent("")}

Records ==
  {[type |-> t, tur |-> tur, content |-> c] :
      t \in {"user", "assistant"}, tur \in Sidecars, c \in Contents}

Toggles ==
  [showThinking : BOOLEAN, showTools : BOOLEAN, showToolOutput : BOOLEAN,
   showOutput : BOOLEAN, showUser : BOOLEAN]

Fresh == [out |-> <<>>, tc |-> 0, err |-> FALSE, at |-> 0]

InitEntry ==
  /\ MainIdle
  /\ DiffIdle
  /\ WrapIdle
  /\ rpc = "input"
  /\ rec \in Records
  /\ recOpts \in Toggles
  /\ recOut = <<>>
  /\ recErr = FALSE

\* try { processEntry(JSON.parse(line), options) } catch {}
ProcessLine ==
  /\ rpc = "input"
  /\ LET st == ProcessEntry(rec, recOpts, Fresh) IN
       /\ recOut' = st.out
       /\ recErr' = st.err
  /\ rpc' = "done"
  /\ UNCHANGED <<mainVars, diffVars, wrapVars, rec, recOpts>>

NextEntry == ProcessLine

SpecEntry == InitEntry /\ [][NextEntry]_vars

SpecDiff == InitDiff /\ [][NextDiff]_vars

(***************************************************************************)
(* Properties                                                              *)
(***************************************************************************)
Blocks(lines) ==
  ProcessLines(lines, Opts(cli), [out |-> <<>>, tc |-> 0, err |-> FALSE, at |-> 0]).out

\* the bytes read so far, processed as one chunk
Consumed == SubSeq(file, 1, readEnd)
OneChunk == Blocks(LinesOf(Consumed, 0))

\* the reads so far are chunks of an append-only file
Chunked == ~shrunk /\ tiled
ChunkedAtLines == Chunked /\ aligned

\* C1: with an append-only file, every read begins where the one before
\* ended and the cursor of the follower stands at the end of the last read,
\* so that no byte is read twice and none is skipped
C1_EveryByteOnce ==
  (~shrunk /\ pc \in {"follow", "reading"}) => (tiled /\ lastSize = readEnd)

\* C2: a record whose bytes arrive split across two reads is rendered once:
\* when the follower has caught up with a file of complete lines, whose
\* bytes it has read without a gap, the output is that of the lines of the
\* file, each rendered once
C2_PartialLineDeferred ==
  (Chunked /\ pc = "follow" /\ pending = <<>> /\ readEnd = Len(file))
    => out = Blocks(LinesOf(file, 0))

\* C3: no step lowers the tail cursor
C3_CursorMonotonic == [][lastSize' >= lastSize]_vars

C3_Witness ==
  pc = "follow" /\ lastNotif = "short" /\ newSize < lastSize /\ shrunk

\* C4: when a change notification has read new bytes, the cursor is the
\* size that notification observed
C4_CursorAtObservedSize ==
  (pc = "follow" /\ lastNotif = "read") => lastSize = newSize

C4_Witness ==
  pc = "follow" /\ lastNotif = "read" /\ out = <<>> /\ lastSize > 0

\* C5: after one whole valid line is appended to a file the follower had
\* caught up with, and until the writer acts again, there is at most one
\* read; before it nothing has moved, after it the cursor has advanced by
\* the length of the line and its newline and the output has grown by the
\* blocks of that line, whatever the number of notifications
LineBlocks(line, at) ==
  ProcessEntry(JsonParse(line), Opts(cli),
               [out |-> <<>>, tc |-> 0, err |-> FALSE, at |-> at]).out

Uncolored(blocks) ==
  [i \in DOMAIN blocks |-> [blocks[i] EXCEPT !.color = -1]]

C5_OneAppendOnePass ==
  probe.on =>
    \/ /\ probe.passes = 0
       /\ lastSize = probe.base
       /\ out = probe.outBase
    \/ /\ probe.passes = 1
       /\ lastSize = probe.base + Len(probe.line) + 1
       /\ Uncolored(out) =
            Uncolored(probe.outBase \o LineBlocks(probe.line, probe.base))

C5_Witness ==
  /\ probe.on /\ probe.passes = 1
  /\ pc = "follow" /\ lastNotif = "noop"
  /\ Len(out) > Len(probe.outBase)

\* C6: when the reads so far are chunks of the file that end at line
\* boundaries, the blocks printed and the thinking count are those of one
\* read of the same bytes
C6_ChunkingInvariance ==
  ChunkedAtLines =>
    /\ out = OneChunk
    /\ thinkingCount = Cardinality({i \in DOMAIN OneChunk : OneChunk[i].kind = "thinking"})

C6_Witness ==
  /\ ChunkedAtLines /\ pc = "follow" /\ lastNotif = "read"
  /\ \E i, j \in DOMAIN out : out[i].at = 0 /\ out[j].at >= 3

\* C7: the blocks printed are those of the valid lines alone, in the same
\* order, whatever malformed lines stand between them
ValidLine(piece) == IsJson(piece.text)

C7_ErrorIsolation ==
  ChunkedAtLines => out = Blocks(SelectSeq(LinesOf(Consumed, 0), ValidLine))

C7_Witness ==
  /\ ChunkedAtLines
  /\ Len(file) >= 5 /\ SubSeq(file, 4, 5) = <<"x", NL>>
  /\ \E i, j \in DOMAIN out : out[i].at = 0 /\ out[j].at = 5

\* C8: the blocks of an append-only file are printed in file order: by
\* offset of their line and, within a line, by item
C8_FileOrder ==
  ~shrunk =>
    \A i, j \in DOMAIN out :
      i < j => \/ out[i].at < out[j].at
               \/ (out[i].at = out[j].at /\ out[i].item < out[j].item)

C8_Witness ==
  /\ ~shrunk /\ pc = "follow" /\ lastNotif = "read" /\ readEnd >= 9
  /\ \E i, j, k \in DOMAIN out :
       out[i].at < out[j].at /\ out[j].at < out[k].at /\ out[i].item > out[k].item

\* C9: every item of a display kind in a line that has been read is
\* rendered iff the flag of its kind or the 'all' flag is set
KindFlag(entry, item) ==
  CASE item.type = "thinking" -> cli.flags.thinking
    [] item.type = "tool_use" -> cli.flags.tools
    [] item.type = "tool_result" -> cli.flags.toolOutput
    [] OTHER -> cli.flags.output

Shown(at, i) == \E b \in DOMAIN out : out[b].at = at /\ out[b].item = i

C9_RenderedIffToggled ==
  ChunkedAtLines =>
    \A n \in DOMAIN LinesOf(Consumed, 0) :
      LET piece == LinesOf(Consumed, 0)[n]
          entry == JsonParse(piece.text)
          items == entry.content.items
      IN IsJson(piece.text) =>
           IF entry.type = "user"
           THEN /\ (TextsOf(items) # <<>> \/ entry.content.text # "")
                     => (Shown(piece.at, 0) <=> (cli.flags.user \/ cli.flags.all))
                /\ \A i \in DOMAIN items :
                     items[i].type = "tool_result"
                       => (Shown(piece.at, i) <=> (cli.flags.toolOutput \/ cli.flags.all))
           ELSE \A i \in DOMAIN items :
                     items[i].val # ""
                       => (Shown(piece.at, i) <=> (KindFlag(entry, items[i]) \/ cli.flags.all))

\* C10 (as amended): a run that cannot resolve its session file ends with
\* status 1, having printed the path it computed, or N/A when the locator
\* found none, and has read, printed and watched nothing
NoLogFile ==
  ~fs.dirExists \/ \A i \in DOMAIN fs.listing : fs.listing[i].name[2] # "jsonl"

Computed ==
  IF EndsWithJsonl(cli.arg1) THEN cli.arg1
  ELSE IF cli.arg1 # <<>> THEN ProjectDir \o <<cli.arg1[1], "jsonl">>
  ELSE Null

Unresolved ==
  IF Computed = Null THEN NoLogFile
  ELSE Computed \notin fs.others
       /\ ~(fs.dirExists /\ \E i \in DOMAIN fs.listing :
                               Computed = ProjectDir \o fs.listing[i].name)

NothingDone == out = <<>> /\ readEnd = 0 /\ ~watching /\ lastNotif = "none"

C10_ResolutionFailure ==
  (pc # "start" /\ ~cli.list /\ Unresolved) =>
    /\ pc = "exited" /\ exitCode = 1
    /\ diag = (IF Computed = Null THEN NA ELSE Computed)
    /\ NothingDone

C10_Witness == pc = "exited" /\ exitCode = 1 /\ diag = NA /\ ~fs.dirExists

\* C10 (as stated): the diagnostic of such a run names the attempted path
C10_DiagnosticNamesPath ==
  (pc # "start" /\ ~cli.list /\ Unresolved) =>
    /\ pc = "exited" /\ exitCode = 1
    /\ diag \notin {Null, NA}
    /\ NothingDone

\* C11: no change notification ends in an uncaught exception, whatever
\* happened to the file before the size check or between it and the read
C11_HandlerSurvives == lastNotif # "threw"

\* C16: once the locator has run, the session file is, for a given session
\* identifier, the file of that name in the project directory whether or
\* not it exists; with no identifier it is not-found when the directory is
\* absent or holds no .jsonl file, and otherwise a .jsonl file of the
\* directory whose modification time no other .jsonl file exceeds
LocatorRan == pc # "start" /\ ~cli.list /\ ~EndsWithJsonl(cli.arg1)

Newest(i) ==
  /\ fs.listing[i].name[2] = "jsonl"
  /\ \A j \in DOMAIN fs.listing :
        fs.listing[j].name[2] = "jsonl"
          => fs.listing[j].mtime <= fs.listing[i].mtime

C16_Locator ==
  LocatorRan =>
    IF cli.arg1 # <<>>
    THEN sessionFile = ProjectDir \o <<cli.arg1[1], "jsonl">>
    ELSE IF NoLogFile THEN sessionFile = Null
    ELSE \E i \in DOMAIN fs.listing :
           Newest(i) /\ sessionFile = ProjectDir \o fs.listing[i].name

C16_Witness ==
  /\ LocatorRan /\ cli.arg1 = <<>>
  /\ sessionFile = ProjectDir \o <<"s2", "jsonl">>
  /\ \E i \in DOMAIN fs.listing :
        fs.listing[i].name[2] # "jsonl" /\ fs.listing[i].mtime > 5

\* C17: a change notification that finds the file at the size of the cursor
\* starts no read and leaves the output, the cursor and the thinking count
\* as they were
C17_NoGrowthNoOp ==
  [][(OnChangeStat /\ Len(file) = lastSize) =>
       /\ pc' = "follow"
       /\ UNCHANGED <<out, lastSize, thinkingCount, readEnd>>]_vars

C17_Witness ==
  /\ pc = "follow" /\ lastNotif = "noop"
  /\ newSize = lastSize /\ lastSize = Len(file)
  /\ lastSize > 0 /\ thinkingCount > 0

\* C15: the k-th thinking block rendered in a process, counted from 0 over
\* the replay and every later batch, has the color palette[k mod
\* paletteSize], in the line renderer and in the ink front end
IsThinking(b) == b.kind = "thinking"

Rotates(blocks, size) ==
  LET t == SelectSeq(blocks, IsThinking)
  IN \A k \in DOMAIN t : t[k].color = (k - 1) % size

LineRendererRotates == Rotates(out, PaletteSize)

C15_PaletteRotation ==
  LineRendererRotates /\ Rotates(entries, THINKING_COLORS)

\* C12: renderDiff of a text with itself returns nothing; of the empty text
\* with X it returns the lines of X as added lines and nothing else; of X
\* with the empty text the lines of X as removed lines and nothing else
AllOf(type, t) == [i \in 1..Len(t) |-> [type |-> type, line |-> t[i], num |-> i]]

C12_DiffBoundaries ==
  dpc = "rendered" =>
    /\ oldStr = newStr => output = <<>>
    /\ oldStr = <<>> => output = AllOf("add", newStr)
    /\ newStr = <<>> => output = AllOf("remove", oldStr)

C12_Witness ==
  /\ dpc = "rendered" /\ contextLines = 0
  /\ oldStr = <<>> /\ Len(newStr) >= 2
  /\ Len(output) = Len(newStr)

\* the texts have one shortest edit script: the diff of the lines does not
\* depend on the library's choice
Determined == Cardinality(diffLines(oldStr, newStr)) = 1

\* C13: a line of the diff shown with some contextLines is shown with every
\* greater contextLines
LinesShown(o) == {o[i] : i \in {j \in DOMAIN o : o[j] # Ellipsis}}

C13_ContextMonotonic ==
  (dpc = "rendered" /\ Determined) =>
    \A c \in 0..MaxContext :
       contextLines < c => LinesShown(output) \subseteq LinesShown(Rendered(allLines, c))

\* C18: every added and every removed line of the diff is in the output
\* exactly once, and every unchanged line within contextLines of a changed
\* line is in the output
Count(o, l) == Cardinality({i \in DOMAIN o : o[i] = l})

NearChange(all, k, c) ==
  \E j \in DOMAIN all : ~IsContext(all[j]) /\ j - k <= c /\ k - j <= c

C18_ChangesShownOnce ==
  (dpc = "rendered" /\ Determined) =>
    \A k \in DOMAIN allLines :
       IF IsContext(allLines[k])
       THEN NearChange(allLines, k, contextLines) => Count(output, allLines[k]) >= 1
       ELSE Count(output, allLines[k]) = 1

\* C19: no unchanged line is printed twice and no two ellipsis markers
\* follow each other
C19_RegionsMerged ==
  (dpc = "rendered" /\ Determined) =>
    /\ \A k \in DOMAIN allLines :
          IsContext(allLines[k]) => Count(output, allLines[k]) <= 1
    /\ \A i \in 1..(Len(output) - 1) :
          ~(output[i] = Ellipsis /\ output[i + 1] = Ellipsis)

\* C20: every ellipsis marker has, between the lines printed before and
\* after it (or the edge of the diff), at least one line of the diff, and
\* two lines printed one after the other, or a first or last printed line
\* and the edge, have no line of the diff between them
Pos(l) == CHOOSE k \in DOMAIN allLines : allLines[k] = l

\* the place in the diff of output entry i, the edges being 0 and Len + 1;
\* -1 for a marker
Place(i) ==
  IF i = 0 THEN 0
  ELSE IF i = Len(output) + 1 THEN Len(allLines) + 1
  ELSE IF output[i] = Ellipsis THEN -1
  ELSE Pos(output[i])

C20_EllipsisWhereElided ==
  (dpc = "rendered" /\ Determined /\ output # <<>>) =>
    /\ \A i \in DOMAIN output :
          output[i] = Ellipsis =>
            /\ Place(i - 1) # -1 /\ Place(i + 1) # -1
            /\ Place(i + 1) - Place(i - 1) > 1
    /\ \A i \in 0..Len(output) :
          (Place(i) # -1 /\ Place(i + 1) # -1) => Place(i + 1) = Place(i) + 1

\* C14: when the terminal width less the indent is 20 or more, no line
\* wrapText returns is longer than the terminal width
LineLen(l) == l.indent + Length(l.body)

C14_NoLineOverWidth ==
  (wpc = "wrapped" /\ Width(columns) - indent >= MinWidth) =>
    \A i \in DOMAIN wrapped : LineLen(wrapped[i]) <= Width(columns)

\* C21: a removed line of the diff carries its position, from 1, in the old
\* text, and an added or kept line its position in the new text: the old
\* position counts the removed and kept lines before it, the new position
\* the added and kept lines before it
Before(k, types) == Cardinality({j \in 1..(k - 1) : allLines[j].type \in types})

C21_LineNumbers ==
  dpc = "rendered" =>
    \A k \in DOMAIN allLines :
       LET l == allLines[k] IN
         IF l.type = "remove"
         THEN /\ l.num = 1 + Before(k, {"remove", "context"})
              /\ l.num \in DOMAIN oldStr /\ oldStr[l.num] = l.line
         ELSE /\ l.num = 1 + Before(k, {"add", "context"})
              /\ l.num \in DOMAIN newStr /\ newStr[l.num] = l.line

C21_Witness ==
  /\ dpc = "rendered"
  /\ \E i, j, k \in DOMAIN allLines :
       /\ i < j /\ j < k
       /\ allLines[i].type = "context"
       /\ allLines[j].type = "remove" /\ allLines[j].num > 1
       /\ allLines[k].type = "add" /\ allLines[k].num > 1

\* C22: for a record of type "user" with content, every tool_result item
\* that has something to show yields one tool-result block when the
\* tool-result toggle is on, whatever the user toggle, and none when it is
\* off; a user block is printed only when the user toggle is on and the
\* text is not empty; no thinking, tool-call or response block is printed
RecItems == IF rec.content.kind = "array" THEN rec.content.items ELSE <<>>

RecBlocks(i, kind) ==
  {b \in DOMAIN recOut : recOut[b].item = i /\ recOut[b].kind = kind}

HasOutput(item) ==
  item.val # "" \/ (rec.tur.present /\ (rec.tur.stdout # "" \/ rec.tur.stderr # ""))

UserText ==
  IF rec.content.kind = "string" THEN rec.content.text # ""
  ELSE \E i \in DOMAIN RecItems : RecItems[i].type = "text" /\ RecItems[i].val # ""

C22_UserRecord ==
  (rpc = "done" /\ rec.type = "user" /\ Truthy(rec.content)) =>
    /\ \A i \in DOMAIN RecItems :
          RecItems[i].type = "tool_result" =>
            Cardinality(RecBlocks(i, "tool_result")) =
              (IF recOpts.showToolOutput /\ HasOutput(RecItems[i]) THEN 1 ELSE 0)
    /\ RecBlocks(0, "user") # {} => (recOpts.showUser /\ UserText)
    /\ \A b \in DOMAIN recOut : recOut[b].kind \in {"user", "tool_result"}

\* C23: for a record that is not of type "user" and whose content is a
\* sequence of items, an item has a block exactly when a record holding
\* that item alone has one, never more than one, and the blocks are in the
\* order of the items
Alone(item) ==
  ProcessEntry([rec EXCEPT !.content = ArrayContent(<<item>>)], recOpts, Fresh).out

C23_ItemsIndependent ==
  (rpc = "done" /\ rec.type # "user" /\ rec.content.kind = "array") =>
    /\ \A i \in DOMAIN RecItems :
          Cardinality({b \in DOMAIN recOut : recOut[b].item = i}) =
            (IF Alone(RecItems[i]) # <<>> THEN 1 ELSE 0)
    /\ \A a, b \in DOMAIN recOut : a < b => recOut[a].item < recOut[b].item

\* C24: with the tool-result toggle on, every tool_result item of a record
\* has a block whose body begins with the stdout of the record's sidecar
\* when that is present and not empty, and with the item's own content
\* otherwise
Body(item) ==
  IF rec.tur.present /\ rec.tur.stdout # "" THEN rec.tur.stdout ELSE item.val

C24_SidecarFirst ==
  (rpc = "done" /\ rec.content.kind = "array" /\ recOpts.showToolOutput) =>
    \A i \in DOMAIN RecItems :
       (RecItems[i].type = "tool_result" /\ Body(RecItems[i]) # "") =>
         \E b \in RecBlocks(i, "tool_result") :
            recOut[b].body # <<>> /\ recOut[b].body[1] = Body(RecItems[i])

\* C25: a change notification that finds the file shorter than the cursor
\* reads and prints nothing and leaves the cursor where it was; the cursor
\* never moves back, and every read of the follower prints only blocks of
\* lines at or beyond the cursor it started from
C25_TruncationBelowCursor ==
  [][/\ lastSize' >= lastSize
     /\ (OnChangeStat /\ Len(file) < lastSize) =>
           /\ pc' = "follow"
           /\ UNCHANGED <<lastSize, out, entries, thinkingCount, readEnd>>
     /\ OnChangeRead =>
           \A b \in (Len(out) + 1)..Len(out') : out'[b].at >= lastSize]_vars

\* the replay printed the assistant record at offset 0; the file was cut
\* under a cursor at 3 and the first byte of a user record written at
\* offset 0 since; a notification has found the file short and left the
\* cursor and the output as they were
C25_Witness ==
  /\ shrunk /\ exists /\ pc = "follow" /\ lastNotif = "short"
  /\ file = <<"U">>
  /\ lastSize = 3 /\ readEnd = 3
  /\ out # <<>> /\ \A b \in DOMAIN out : out[b].at = 0 /\ out[b].kind # "user"

\* C26: when a renderer throws on an item of a record, in the replay or in
\* a read of the follower, the items after it in that record print
\* nothing, the valid lines after it in the same read are still printed,
\* the cursor moves to the size observed, and the run goes on (or ends
\* with status 0 when it does not follow)
ThrowingItem(e, i) ==
  /\ e.content.items[i].type = "tool_result"
  /\ e.content.items[i].val = Struct
  /\ ~(e.tur.present /\ e.tur.stdout # "")

ThrowsOn(e) ==
  /\ Opts(cli).showToolOutput
  /\ e.content.kind = "array"
  /\ \E i \in DOMAIN e.content.items : ThrowingItem(e, i)

\* a block printed by this step for item i of the line at offset a
NewAt(a, i) ==
  \E b \in (Len(out) + 1)..Len(out') : out'[b].at = a /\ out'[b].item = i

\* the first block a record prints when its toggle is on
Opening(e) == IF e.type = "user" THEN 0 ELSE 1
OpeningOn(e) == IF e.type = "user" THEN Opts(cli).showUser ELSE Opts(cli).showThinking

Swallowed(lines) ==
  \A n \in DOMAIN lines :
     (IsJson(lines[n].text) /\ ThrowsOn(JsonParse(lines[n].text))) =>
       LET e == JsonParse(lines[n].text) IN
         /\ \A i, j \in DOMAIN e.content.items :
               (ThrowingItem(e, i) /\ i < j) => ~NewAt(lines[n].at, j)
         /\ \A k \in DOMAIN lines :
               (n < k /\ IsJson(lines[k].text) /\ OpeningOn(JsonParse(lines[k].text)))
                 => NewAt(lines[k].at, Opening(JsonParse(lines[k].text)))

C26_ExceptionSwallowed ==
  [][/\ Replay =>
          /\ Swallowed(LinesOf(file, 0))
          /\ IF cli.follow THEN pc' = "init" ELSE pc' = "exited" /\ exitCode' = 0
     /\ OnChangeRead =>
          /\ Swallowed(LinesOf(ReadSync(file, lastSize, newSize - lastSize), lastSize))
          /\ pc' = "follow"
          /\ lastSize' = newSize]_vars

\* the structured tool_result of a user record threw, the item after it
\* printed nothing, a record after it was printed by the follower and the
\* cursor is at the end of the file
C26_Witness ==
  /\ pc = "follow" /\ lastNotif = "read" /\ ~shrunk /\ lastSize = Len(file)
  /\ \E b, c \in DOMAIN out :
       /\ out[b].kind = "tool_result" /\ out[b].body = <<>>
       /\ out[b].at >= 3 /\ out[c].at > out[b].at
       /\ \A d \in DOMAIN out : out[d].at = out[b].at => out[d].item <= out[b].item

====
